---- MODULE Spec2Model ----
(***************************************************************************)
(* LayerTreeHostProxy (Source/WebKit2/UIProcess/qt/LayerTreeHostProxyQt.cpp) *)
(* as a state machine: the producer entry points append messages to        *)
(* m_messagesToRenderer, and the paint context drains that queue in        *)
(* syncRemoteContent, replaying every message against the mirrored layer   *)
(* tree, the tile backing stores and the directly composited images.       *)
(*                                                                         *)
(* Heap objects (GraphicsLayer, LayerBackingStore) are modelled by         *)
(* handles: a layer handle is never reused, so that a raw pointer to a     *)
(* deleted layer stays distinguishable from every live layer.              *)
(* The animation list of WebLayerInfo is not modelled: no property checked *)
(* here reads a layer's animation set.                                     *)
(***************************************************************************)
EXTENDS Integers, Sequences, FiniteSets, TLC

\* ---------------------------------------------------------------- bounds
\* Cap on the number of messages ever pushed to the queue.
MaxCommands == 4
\* Layer identifiers are 1..NumLayers.
NumLayers == 2
\* Tile identifiers are 1..NumTiles.
NumTiles == 1
\* Image keys are 1..NumImages.
NumImages == 1
\* Bitmap contents (pixel buffers) are 1..NumBitmaps.
NumBitmaps == 1

\* ------------------------------------------------------------- constants
\* WebLayerID 0 names no layer.
InvalidWebLayerID == 0
\* The null pointer: no GraphicsLayer, no backing store, no contents.
NullPtr == 0
\* A pointer that is neither null nor the address of a live object: what a
\* read through the end() iterator of the image map may yield.
Garbage == -1

LayerIDs == 1..NumLayers
\* The keys of the layer map: the layer IDs, and one more that only the
\* child-list specification draws on, so that a layer can have two children.
LayerMapKeys == 1..(NumLayers + 1)
TileIDs == 1..NumTiles
ImageIDs == 1..NumImages
Bitmaps == 1..NumBitmaps

\* ------------------------------------------------------------ sequences
RECURSIVE SeqRemove(_, _)
\* s without the occurrences of x (Vector::remove of the found index).
SeqRemove(s, x) ==
    IF s = <<>> THEN <<>>
    ELSE IF Head(s) = x THEN SeqRemove(Tail(s), x)
    ELSE <<Head(s)>> \o SeqRemove(Tail(s), x)

Range(s) == {s[i] : i \in 1..Len(s)}

\* f without the key k.
Without(f, k) == [x \in DOMAIN f \ {k} |-> f[x]]

\* ------------------------------------------------------- GraphicsLayer
\* A freshly constructed GraphicsLayerTextureMapper.
NewLayer ==
    [children |-> <<>>, parent |-> NullPtr, mask |-> NullPtr,
     replica |-> NullPtr, pos |-> 0, contentsRect |-> 0,
     masksToBounds |-> FALSE, opacity |-> 0, contents |-> NullPtr,
     backingStore |-> NullPtr]

\* GraphicsLayer::removeFromParent on the layer table `nodes`.
removeFromParent(nodes, h) ==
    LET par == nodes[h].parent IN
    IF par = NullPtr THEN nodes
    ELSE [nodes EXCEPT ![par].children = SeqRemove(@, h),
                       ![h].parent = NullPtr]

\* GraphicsLayer::addChild: the child leaves its former parent first.
addChild(nodes, h, child) ==
    LET n1 == removeFromParent(nodes, child) IN
    [n1 EXCEPT ![child].parent = h, ![h].children = Append(@, child)]

\* GraphicsLayer::removeAllChildren.
removeAllChildren(nodes, h) ==
    [x \in DOMAIN nodes |->
        IF x = h THEN [nodes[x] EXCEPT !.children = <<>>]
        ELSE IF x \in Range(nodes[h].children)
             THEN [nodes[x] EXCEPT !.parent = NullPtr]
        ELSE nodes[x]]

RECURSIVE addChildren(_, _, _)
addChildren(nodes, h, kids) ==
    IF kids = <<>> THEN nodes
    ELSE addChildren(addChild(nodes, h, Head(kids)), h, Tail(kids))

\* GraphicsLayer::setChildren: drop the old list, then add each in order.
setChildren(nodes, h, kids) ==
    addChildren(removeAllChildren(nodes, h), h, kids)

\* delete layer: ~GraphicsLayer detaches the children and the layer itself,
\* and the storage goes away; raw pointers held elsewhere are left as is.
destroyLayer(nodes, h) ==
    Without(removeFromParent(removeAllChildren(nodes, h), h), h)

\* ---------------------------------------------------- LayerBackingStore
\* A tile of a backing store: absent until created; `pending` is the back
\* buffer queued by updateTile, `visible` the content the last swap showed.
NoTile == [created |-> FALSE, pending |-> NullPtr, visible |-> NullPtr]

\* LayerBackingStore::create: no tiles.
NewBackingStore == [t \in TileIDs |-> NoTile]

\* LayerBackingStore::createTile: idempotent when the tile exists.
storeCreateTile(store, tileID) ==
    IF store[tileID].created THEN store
    ELSE [store EXCEPT ![tileID] = [NoTile EXCEPT !.created = TRUE]]

\* LayerBackingStore::removeTile: visible and pending state both go.
storeRemoveTile(store, tileID) == [store EXCEPT ![tileID] = NoTile]

\* LayerBackingStore::updateTile: the newest pending content wins.
storeUpdateTile(store, tileID, bitmap) ==
    [store EXCEPT ![tileID] = [@ EXCEPT !.created = TRUE, !.pending = bitmap]]

\* LayerBackingStore::swapBuffers: every pending buffer becomes visible.
storeSwapBuffers(store) ==
    [t \in TileIDs |->
        IF store[t].pending = NullPtr THEN store[t]
        ELSE [store[t] EXCEPT !.visible = store[t].pending,
                              !.pending = NullPtr]]

\* ------------------------------------------------- LayerTreeHostProxy
\* The object after its constructor: no layers, no root, nothing sent.
NewProxy ==
    [m_layers |-> [id \in LayerMapKeys |-> NullPtr],
     nodes |-> <<>>,
     nextNode |-> 1,
     m_rootLayer |-> NullPtr,
     m_rootLayerID |-> InvalidWebLayerID,
     m_directlyCompositedImages |-> {},
     stores |-> <<>>,
     m_backingStoresWithPendingBuffers |-> {},
     m_textureMapper |-> FALSE,
     events |-> <<>>,
     crashed |-> FALSE]

\* RefPtr<LayerBackingStore>: a store lives while a layer or the pending
\* set holds it.
releaseStores(p) ==
    LET held == {p.nodes[h].backingStore : h \in DOMAIN p.nodes}
                    \cup p.m_backingStoresWithPendingBuffers
    IN [p EXCEPT !.stores = [s \in DOMAIN p.stores \cap held |-> p.stores[s]]]

\* The handle the next LayerBackingStore::create returns.
freeStore(p) ==
    CHOOSE s \in 1..(Cardinality(DOMAIN p.stores) + 1) :
        /\ s \notin DOMAIN p.stores
        /\ \A t \in 1..(s - 1) : t \in DOMAIN p.stores

\* LayerTreeHostProxy::createLayer: a new layer at handle p.nextNode.
createLayer(p) ==
    [p EXCEPT !.nodes = p.nodes @@ (p.nextNode :> NewLayer),
              !.nextNode = p.nextNode + 1]

\* LayerTreeHostProxy::layerByID (0 for the invalid ID or an unknown one).
layerByID(p, id) ==
    IF id = InvalidWebLayerID THEN NullPtr ELSE p.m_layers[id]

\* ensureLayer registering a new layer whether or not the ID has one.
ensureLayer_alwaysCreate(p, id) ==
    [createLayer(p) EXCEPT !.m_layers[id] = p.nextNode]

\* LayerTreeHostProxy::ensureLayer.
ensureLayer(p, id) ==
    IF p.m_layers[id] = NullPtr
    THEN [createLayer(p) EXCEPT !.m_layers[id] = p.nextNode]
    ELSE p

\* LayerTreeHostProxy::ensureRootLayer.
ensureRootLayer(p) ==
    IF p.m_rootLayer # NullPtr THEN p
    ELSE [createLayer(p) EXCEPT !.m_rootLayer = p.nextNode,
                                !.m_textureMapper = TRUE]

\* setRootLayerID attaching the new root beside the children already there.
setRootLayerID_keepChildren(p, layerID) ==
    IF layerID = p.m_rootLayerID THEN p
    ELSE
      LET p1 == [p EXCEPT !.m_rootLayerID = layerID]
          layer == layerByID(p1, layerID)
      IN IF layerID = InvalidWebLayerID \/ layer = NullPtr THEN p1
         ELSE [p1 EXCEPT !.nodes = addChild(p1.nodes, p1.m_rootLayer, layer)]

\* LayerTreeHostProxy::setRootLayerID.
setRootLayerID(p, layerID) ==
    IF layerID = p.m_rootLayerID THEN p
    ELSE
      LET p1 == [p EXCEPT !.m_rootLayerID = layerID,
                          !.nodes = removeAllChildren(p.nodes, p.m_rootLayer)]
          layer == layerByID(p1, layerID)
      IN IF layerID = InvalidWebLayerID \/ layer = NullPtr THEN p1
         ELSE [p1 EXCEPT !.nodes = addChild(p1.nodes, p1.m_rootLayer, layer)]

\* LayerTreeHostProxy::assignImageToLayer.  With the image registered the
\* layer shows it.  Otherwise the ASSERT aborts a debug build, and a
\* release build reads through end(): it crashes, or the layer's contents
\* become whatever lies there.
assignImageToLayer(p, layer, imageID) ==
    IF imageID \in p.m_directlyCompositedImages
    THEN {[p EXCEPT !.nodes[layer].contents = imageID]}
    ELSE {[p EXCEPT !.crashed = TRUE]}
         \cup {[p EXCEPT !.nodes[layer].contents = c] :
                   c \in {NullPtr, Garbage}}

RECURSIVE ensureChildren(_, _)
\* The loop of syncLayerParameters over layerInfo.children: an unknown
\* child ID gets a new layer registered under it.
ensureChildren(p, kids) ==
    IF kids = <<>> THEN p
    ELSE ensureChildren(ensureLayer(p, Head(kids)), Tail(kids))

\* syncLayerParameters adding the listed children to the ones the layer has.
syncLayerTail_addOnly(p, layer, layerInfo) ==
    LET id == layerInfo.id
        p1 == [p EXCEPT
                 !.nodes[layer].masksToBounds =
                     IF layerInfo.isRootLayer THEN FALSE
                     ELSE layerInfo.masksToBounds,
                 !.nodes[layer].opacity = layerInfo.opacity]
        p2 == ensureChildren(p1, layerInfo.children)
        children == [i \in 1..Len(layerInfo.children) |->
                        p2.m_layers[layerInfo.children[i]]]
        p3 == [p2 EXCEPT !.nodes = addChildren(p2.nodes, layer, children)]
    IN IF layerInfo.isRootLayer /\ p3.m_rootLayerID # id
       THEN setRootLayerID(p3, id)
       ELSE p3

\* LayerTreeHostProxy::syncLayerParameters, after the image assignment.
syncLayerTail(p, layer, layerInfo) ==
    LET id == layerInfo.id
        p1 == [p EXCEPT
                 !.nodes[layer].masksToBounds =
                     IF layerInfo.isRootLayer THEN FALSE
                     ELSE layerInfo.masksToBounds,
                 !.nodes[layer].opacity = layerInfo.opacity]
        p2 == ensureChildren(p1, layerInfo.children)
        children == [i \in 1..Len(layerInfo.children) |->
                        p2.m_layers[layerInfo.children[i]]]
        p3 == [p2 EXCEPT !.nodes = setChildren(p2.nodes, layer, children)]
    IN IF layerInfo.isRootLayer /\ p3.m_rootLayerID # id
       THEN setRootLayerID(p3, id)
       ELSE p3

\* syncLayerParameters assigning the image only when the flag is set.
syncLayerParameters_flagOnly(p, layerInfo) ==
    LET id == layerInfo.id
        p1 == ensureLayer(p, id)
        layer == p1.m_layers[id]
        p2 == [p1 EXCEPT
                 !.nodes[layer].replica = layerByID(p1, layerInfo.replica),
                 !.nodes[layer].mask = layerByID(p1, layerInfo.mask),
                 !.nodes[layer].pos = layerInfo.pos,
                 !.nodes[layer].contentsRect = layerInfo.contentsRect]
        assigned ==
            IF layerInfo.imageIsUpdated
            THEN assignImageToLayer(p2, layer, layerInfo.imageBackingStoreID)
            ELSE {p2}
    IN {IF q.crashed THEN q ELSE syncLayerTail(q, layer, layerInfo) :
            q \in assigned}

\* LayerTreeHostProxy::syncLayerParameters: the set of states it can leave.
syncLayerParameters(p, layerInfo) ==
    LET id == layerInfo.id
        p1 == ensureLayer(p, id)
        layer == p1.m_layers[id]
        needsToUpdateImageTiles ==
            \/ layerInfo.imageIsUpdated
            \/ /\ layerInfo.contentsRect # p1.nodes[layer].contentsRect
               /\ layerInfo.imageBackingStoreID # 0
        p2 == [p1 EXCEPT
                 !.nodes[layer].replica = layerByID(p1, layerInfo.replica),
                 !.nodes[layer].mask = layerByID(p1, layerInfo.mask),
                 !.nodes[layer].pos = layerInfo.pos,
                 !.nodes[layer].contentsRect = layerInfo.contentsRect]
        assigned ==
            IF needsToUpdateImageTiles
            THEN assignImageToLayer(p2, layer, layerInfo.imageBackingStoreID)
            ELSE {p2}
    IN {IF q.crashed THEN q ELSE syncLayerTail(q, layer, layerInfo) :
            q \in assigned}

\* deleteLayer forgetting the root ID it is handed, before the null check.
deleteLayer_clearRoot(p, layerID) ==
    LET p0 == IF p.m_rootLayerID = layerID
              THEN [p EXCEPT !.m_rootLayerID = InvalidWebLayerID] ELSE p
        layer == layerByID(p0, layerID)
    IN IF layer = NullPtr THEN p0
       ELSE releaseStores(
              [p0 EXCEPT !.nodes = destroyLayer(p0.nodes, layer),
                         !.m_layers[layerID] = NullPtr])

\* LayerTreeHostProxy::deleteLayer.
deleteLayer(p, layerID) ==
    LET layer == layerByID(p, layerID) IN
    IF layer = NullPtr THEN p
    ELSE releaseStores(
           [p EXCEPT !.nodes = destroyLayer(p.nodes, layer),
                     !.m_layers[layerID] = NullPtr])

\* getBackingStore making a new store on every call.
getBackingStore_alwaysNew(p, id) ==
    LET p1 == ensureLayer(p, id)
        layer == p1.m_layers[id]
    IN [p1 EXCEPT
          !.stores = p1.stores @@ (freeStore(p1) :> NewBackingStore),
          !.nodes[layer].backingStore = freeStore(p1)]

\* LayerTreeHostProxy::getBackingStore: the layer and its store are made
\* on first use.
getBackingStore(p, id) ==
    LET p1 == ensureLayer(p, id)
        layer == p1.m_layers[id]
    IN IF p1.nodes[layer].backingStore # NullPtr THEN p1
       ELSE [p1 EXCEPT
               !.stores = p1.stores @@ (freeStore(p1) :> NewBackingStore),
               !.nodes[layer].backingStore = freeStore(p1)]

\* The store handle getBackingStore returns in the state it leaves.
backingStoreOf(p, id) == p.nodes[p.m_layers[id]].backingStore

\* LayerTreeHostProxy::createTile.
createTile(p, layerID, tileID) ==
    LET p1 == getBackingStore(p, layerID)
        s == backingStoreOf(p1, layerID)
    IN [p1 EXCEPT !.stores[s] = storeCreateTile(@, tileID)]

\* LayerTreeHostProxy::removeTile.
removeTile(p, layerID, tileID) ==
    LET p1 == getBackingStore(p, layerID)
        s == backingStoreOf(p1, layerID)
    IN [p1 EXCEPT !.stores[s] = storeRemoveTile(@, tileID)]

\* updateTile without the add to m_backingStoresWithPendingBuffers.
updateTile_notPending(p, layerID, tileID, bitmap) ==
    LET p1 == getBackingStore(p, layerID)
        s == backingStoreOf(p1, layerID)
    IN [p1 EXCEPT !.stores[s] = storeUpdateTile(@, tileID, bitmap)]

\* LayerTreeHostProxy::updateTile.
updateTile(p, layerID, tileID, bitmap) ==
    LET p1 == getBackingStore(p, layerID)
        s == backingStoreOf(p1, layerID)
    IN [p1 EXCEPT
          !.stores[s] = storeUpdateTile(@, tileID, bitmap),
          !.m_backingStoresWithPendingBuffers = @ \cup {s}]

\* LayerTreeHostProxy::createImage.
createImage(p, imageID) ==
    [p EXCEPT !.m_directlyCompositedImages = @ \cup {imageID}]

\* LayerTreeHostProxy::destroyImage.
destroyImage(p, imageID) ==
    [p EXCEPT !.m_directlyCompositedImages = @ \ {imageID}]

\* LayerTreeHostProxy::swapBuffers.
swapBuffers(p) ==
    releaseStores(
      [p EXCEPT
         !.stores = [s \in DOMAIN p.stores |->
                        IF s \in p.m_backingStoresWithPendingBuffers
                        THEN storeSwapBuffers(p.stores[s])
                        ELSE p.stores[s]],
         !.m_backingStoresWithPendingBuffers = {},
         !.events = Append(@, "swapBuffers")])

\* flushLayerChanges telling the web process before the swap.
flushLayerChanges_sendFirst(p) ==
    swapBuffers([p EXCEPT !.events = Append(@, "RenderNextFrame")])

\* flushLayerChanges without the swap.
flushLayerChanges_noSwap(p) ==
    [p EXCEPT !.events = Append(@, "RenderNextFrame")]

\* LayerTreeHostProxy::flushLayerChanges.
flushLayerChanges(p) ==
    [swapBuffers(p) EXCEPT !.events = Append(@, "RenderNextFrame")]

RECURSIVE subtree(_, _, _)
\* The layers reachable from the layers in `todo` through child lists.
subtree(nodes, todo, seen) ==
    IF todo = {} THEN seen
    ELSE LET h == CHOOSE x \in todo : TRUE
             kids == Range(nodes[h].children) \ (seen \cup {h})
         IN subtree(nodes, (todo \ {h}) \cup kids, seen \cup {h})

\* TextureMapperLayer::clearBackingStoresRecursive: the layer and every
\* layer below it drop their backing store and their contents.
clearBackingStoresRecursive(nodes, h) ==
    [x \in DOMAIN nodes |->
        IF x \in subtree(nodes, {h}, {})
        THEN [nodes[x] EXCEPT !.backingStore = NullPtr, !.contents = NullPtr]
        ELSE nodes[x]]

\* purgeGLResources leaving the pending set as it is.
purgeGLResources_keepPending(p) ==
    LET p1 == IF p.m_rootLayer = NullPtr THEN p
              ELSE [p EXCEPT !.nodes =
                        clearBackingStoresRecursive(p.nodes, p.m_rootLayer)]
    IN releaseStores(
         [p1 EXCEPT !.m_directlyCompositedImages = {},
                    !.m_textureMapper = FALSE,
                    !.events = Append(@, "PurgeBackingStores")])

\* LayerTreeHostProxy::purgeGLResources.
purgeGLResources(p) ==
    LET p1 == IF p.m_rootLayer = NullPtr THEN p
              ELSE [p EXCEPT !.nodes =
                        clearBackingStoresRecursive(p.nodes, p.m_rootLayer)]
    IN releaseStores(
         [p1 EXCEPT !.m_directlyCompositedImages = {},
                    !.m_textureMapper = FALSE,
                    !.m_backingStoresWithPendingBuffers = {},
                    !.events = Append(@, "PurgeBackingStores")])

\* The switch of syncRemoteContent on one message: the states it can leave.
applyMessage(p, m) ==
    CASE m.type = "SetRootLayer" -> {setRootLayerID(p, m.layerID)}
      [] m.type = "DeleteLayer" -> {deleteLayer(p, m.layerID)}
      [] m.type = "SyncLayerParameters" -> syncLayerParameters(p, m.layerInfo)
      [] m.type = "CreateTile" -> {createTile(p, m.layerID, m.remoteTileID)}
      [] m.type = "RemoveTile" -> {removeTile(p, m.layerID, m.remoteTileID)}
      [] m.type = "UpdateTile" ->
            {updateTile(p, m.layerID, m.remoteTileID, m.bitmap)}
      [] m.type = "CreateImage" -> {createImage(p, m.imageID)}
      [] m.type = "DestroyImage" -> {destroyImage(p, m.imageID)}
      [] m.type = "FlushLayerChanges" -> {flushLayerChanges(p)}

RECURSIVE drain(_, _)
\* The loop of syncRemoteContent over the messages that wait in the queue,
\* oldest first: the states it can leave.  A crash ends it.
drain(p, messages) ==
    IF messages = <<>> \/ p.crashed THEN {p}
    ELSE UNION {drain(q, Tail(messages)) :
                    q \in applyMessage(p, Head(messages))}

\* ------------------------------------------------------------- messages
\* WebLayerInfo, the descriptor a SyncLayerParameters message carries.
WebLayerInfo(id, children, isRootLayer, masksToBounds, imageIsUpdated, imageBackingStoreID, contentsRect, mask, replica) ==
    [id |-> id, children |-> children, isRootLayer |-> isRootLayer,
     masksToBounds |-> masksToBounds, imageIsUpdated |-> imageIsUpdated,
     imageBackingStoreID |-> imageBackingStoreID,
     contentsRect |-> contentsRect, mask |-> mask, replica |-> replica,
     pos |-> 1, opacity |-> 1]

CreateTileMessage(layerID, tileID) ==
    [type |-> "CreateTile", layerID |-> layerID, remoteTileID |-> tileID]
UpdateTileMessage(layerID, tileID, bitmap) ==
    [type |-> "UpdateTile", layerID |-> layerID, remoteTileID |-> tileID,
     bitmap |-> bitmap]
RemoveTileMessage(layerID, tileID) ==
    [type |-> "RemoveTile", layerID |-> layerID, remoteTileID |-> tileID]
CreateImageMessage(imageID) == [type |-> "CreateImage", imageID |-> imageID]
DestroyImageMessage(imageID) == [type |-> "DestroyImage", imageID |-> imageID]
SyncLayerParametersMessage(layerInfo) ==
    [type |-> "SyncLayerParameters", layerInfo |-> layerInfo]
DeleteLayerMessage(layerID) == [type |-> "DeleteLayer", layerID |-> layerID]
SetRootLayerMessage(layerID) == [type |-> "SetRootLayer", layerID |-> layerID]
FlushLayerChangesMessage == [type |-> "FlushLayerChanges"]

\* No message: the null OwnPtr that ends the loop of syncRemoteContent.
NoMessage == [type |-> "none"]

\* pushUpdateToQueue putting the message at the front of the queue.
pushUpdateToQueue_prepend(queue, message) == <<message>> \o queue

\* pushUpdateToQueue replacing a waiting message of the same type.
pushUpdateToQueue_coalesce(queue, message) ==
    IF queue # <<>> /\ queue[Len(queue)].type = message.type
    THEN [queue EXCEPT ![Len(queue)] = message]
    ELSE Append(queue, message)

\* m_messagesToRenderer.append in pushUpdateToQueue.
pushUpdateToQueue(queue, message) == Append(queue, message)

\* MessageQueue::tryGetMessage on a queue that holds a message: the oldest
\* one, and the queue without it.
tryGetMessage(queue) == [message |-> Head(queue), rest |-> Tail(queue)]

\* -------------------------------------------------------- ScrollingTree
\* ScrollingTree.h declares the object; its member functions are defined
\* outside it and are modelled as the design describes them.  The main
\* frame scroll position and the wheel-event-handler flag take no part in
\* the routing described there and are left out.

\* Cap on the calls made on the ScrollingTree.
MaxScrollCalls == 4

\* Event origins: point 1 can lie in the non-fast-scrollable region,
\* point 2 never does.
Points == {1, 2}

\* The tree states a commit can carry: a non-fast-scrollable region, and
\* the points that have a scrollable node under them.
TreeStates ==
    {[region |-> r, scrollable |-> n] : r \in {{}, {1}}, n \in {{}, Points}}

\* Wheel events: an origin and a horizontal direction.
WheelEvents == {[point |-> pt, direction |-> d] :
                    pt \in Points, d \in {"left", "right"}}

\* ScrollingTree::ScrollingTree: an empty tree, commit 0, nothing pinned.
NewScrollingTree ==
    [m_rootNode |-> [commit |-> 0, scrollable |-> {}],
     m_nonFastScrollableRegion |-> [commit |-> 0, region |-> {}],
     m_mutex |-> "free",
     m_swipeStateMutex |-> "free",
     m_canGoBack |-> FALSE,
     m_canGoForward |-> FALSE,
     m_mainFramePinnedToTheLeft |-> FALSE,
     m_mainFramePinnedToTheRight |-> FALSE]

\* No call in progress.  `calls` counts the calls made, `commits` the
\* commits started, and `completed` holds the arguments of the last
\* updateBackForwardState call that returned.
NoCalls ==
    [commit |-> [pc |-> "idle", state |-> [region |-> {}, scrollable |-> {}],
                 number |-> 0],
     wheel |-> [pc |-> "idle", event |-> [point |-> 2, direction |-> "left"],
                region |-> [commit |-> 0, region |-> {}],
                root |-> [commit |-> 0, scrollable |-> {}],
                swipe |-> FALSE, result |-> "none"],
     update |-> [pc |-> "idle", canGoBack |-> FALSE, canGoForward |-> FALSE],
     query |-> [pc |-> "idle", member |-> "m_canGoBack", value |-> FALSE,
                expected |-> FALSE, answered |-> FALSE],
     calls |-> 0,
     completed |-> [m_canGoBack |-> FALSE, m_canGoForward |-> FALSE]]

\* ScrollingTree::willWheelEventStartSwipeGesture: the frame is pinned to
\* the edge the event pushes against and the page can navigate that way.
willWheelEventStartSwipeGesture(tree, event) ==
    \/ /\ event.direction = "left"
       /\ tree.m_mainFramePinnedToTheLeft /\ tree.m_canGoBack
    \/ /\ event.direction = "right"
       /\ tree.m_mainFramePinnedToTheRight /\ tree.m_canGoForward

\* tryToHandleWheelEvent asking for a scrollable node before the region.
tryToHandleWheelEventResult_nodeFirst(event, region, root, swipe) ==
    IF event.point \in root.scrollable /\ ~swipe THEN "DidHandleEvent"
    ELSE IF event.point \in region.region THEN "SendToMainThread"
    ELSE "DidNotHandleEvent"

\* The result of ScrollingTree::tryToHandleWheelEvent from what the call
\* read: the region first, then the swipe gesture, then a scrollable node.
tryToHandleWheelEventResult(event, region, root, swipe) ==
    IF event.point \in region.region THEN "SendToMainThread"
    ELSE IF swipe THEN "DidNotHandleEvent"
    ELSE IF event.point \in root.scrollable THEN "DidHandleEvent"
    ELSE "DidNotHandleEvent"

\* ----------------------------------------------------------------- state
VARIABLES
    m_messagesToRenderer,  \* the queue between the producer and the paint
    proxy,                 \* the LayerTreeHostProxy object
    pc,                    \* where the paint context is in syncRemoteContent
    nextMessage,           \* the message the loop popped last
    updateRequested,       \* updateViewport() asked the view to repaint
    numEnqueued,           \* messages pushed so far; each carries its number
    applied,               \* the numbers of the messages applied, in order
    flushesApplied,        \* FlushLayerChanges messages applied so far
    before,                \* the proxy as it was when nextMessage was popped
    replay,                \* a second run fed the same messages, or NoReplay
    scrollingTree,         \* the ScrollingTree object
    threads                \* the calls in progress on the ScrollingTree

\* The variables of the layer tree host, and those of the scrolling tree.
layerVars == <<m_messagesToRenderer, proxy, pc, nextMessage, updateRequested,
               numEnqueued, applied, flushesApplied, before, replay>>
scrollVars == <<scrollingTree, threads>>

vars == <<m_messagesToRenderer, proxy, pc, nextMessage, updateRequested,
          numEnqueued, applied, flushesApplied, before, replay,
          scrollingTree, threads>>

\* No second run is being compared.
NoReplay == [none |-> TRUE]

Init ==
    /\ m_messagesToRenderer = <<>>
    /\ proxy = NewProxy
    /\ pc = "idle"
    /\ nextMessage = NoMessage
    /\ updateRequested = FALSE
    /\ numEnqueued = 0
    /\ applied = <<>>
    /\ flushesApplied = 0
    /\ before = NewProxy
    /\ replay = NoReplay
    /\ scrollingTree = NewScrollingTree
    /\ threads = NoCalls

RECURSIVE pushAll(_, _, _)
\* Successive pushUpdateToQueue calls of one entry point; the n-th message
\* ever pushed carries the number n.
pushAll(queue, n, messages) ==
    IF messages = <<>> THEN queue
    ELSE pushAll(pushUpdateToQueue(queue, Head(messages) @@ [seq |-> n + 1]),
                 n + 1, Tail(messages))

\* A producer entry point pushing `messages`, each push followed by
\* updateViewport().
Produce(messages) ==
    /\ ~proxy.crashed
    /\ numEnqueued + Len(messages) <= MaxCommands
    /\ m_messagesToRenderer' =
           pushAll(m_messagesToRenderer, numEnqueued, messages)
    /\ numEnqueued' = numEnqueued + Len(messages)
    /\ updateRequested' = TRUE
    /\ UNCHANGED <<proxy, pc, nextMessage, applied, flushesApplied, before,
                   replay>>
    /\ UNCHANGED scrollVars

\* ------------------------------------------------- producer entry points
createTileForLayer(layerID, tileID, bitmap) ==
    Produce(<<CreateTileMessage(layerID, tileID),
              UpdateTileMessage(layerID, tileID, bitmap)>>)

updateTileForLayer(layerID, tileID, bitmap) ==
    Produce(<<UpdateTileMessage(layerID, tileID, bitmap)>>)

removeTileForLayer(layerID, tileID) ==
    Produce(<<RemoveTileMessage(layerID, tileID)>>)

deleteCompositingLayer(id) == Produce(<<DeleteLayerMessage(id)>>)

setRootCompositingLayer(id) == Produce(<<SetRootLayerMessage(id)>>)

syncCompositingLayerState(info) ==
    Produce(<<SyncLayerParametersMessage(info)>>)

didRenderFrame == Produce(<<FlushLayerChangesMessage>>)

\* createDirectlyCompositedImage registering the image as it queues it.
createDirectlyCompositedImage_register(key) ==
    /\ ~proxy.crashed
    /\ numEnqueued < MaxCommands
    /\ m_messagesToRenderer' =
           pushAll(m_messagesToRenderer, numEnqueued, <<CreateImageMessage(key)>>)
    /\ numEnqueued' = numEnqueued + 1
    /\ updateRequested' = TRUE
    /\ proxy' = createImage(proxy, key)
    /\ UNCHANGED <<pc, nextMessage, applied, flushesApplied, before, replay>>
    /\ UNCHANGED scrollVars

createDirectlyCompositedImage(key) == Produce(<<CreateImageMessage(key)>>)

destroyDirectlyCompositedImage(key) == Produce(<<DestroyImageMessage(key)>>)

\* ---------------------------------------------------- the paint context
\* paintToCurrentGLContext / paintToGraphicsContext up to the loop of
\* syncRemoteContent: the texture mapper and the root container exist.
paintProxy(p) == ensureRootLayer([p EXCEPT !.m_textureMapper = TRUE])

paint ==
    /\ ~proxy.crashed
    /\ pc = "idle"
    /\ proxy' = paintProxy(proxy)
    /\ replay' = IF replay = NoReplay THEN replay ELSE paintProxy(replay)
    /\ pc' = "tryGetMessage"
    /\ updateRequested' = FALSE
    /\ UNCHANGED <<m_messagesToRenderer, nextMessage, numEnqueued, applied,
                   flushesApplied, before>>
    /\ UNCHANGED scrollVars

\* The loop condition with a message waiting: pop the oldest.
syncRemoteContentGet ==
    /\ ~proxy.crashed
    /\ pc = "tryGetMessage"
    /\ m_messagesToRenderer # <<>>
    /\ nextMessage' = tryGetMessage(m_messagesToRenderer).message
    /\ m_messagesToRenderer' = tryGetMessage(m_messagesToRenderer).rest
    /\ before' = proxy
    /\ pc' = "switch"
    /\ UNCHANGED <<proxy, updateRequested, numEnqueued, applied,
                   flushesApplied, replay>>
    /\ UNCHANGED scrollVars

\* The switch on the popped message.  A crash stops the process where it is.
syncRemoteContentApply ==
    /\ ~proxy.crashed
    /\ pc = "switch"
    /\ \E q \in applyMessage(proxy, nextMessage) :
         /\ proxy' = q
         /\ IF q.crashed
            THEN UNCHANGED <<pc, applied, flushesApplied>>
            ELSE /\ pc' = "tryGetMessage"
                 /\ applied' = Append(applied, nextMessage.seq)
                 /\ flushesApplied' =
                        IF nextMessage.type = "FlushLayerChanges"
                        THEN flushesApplied + 1 ELSE flushesApplied
    /\ replay' \in IF replay = NoReplay \/ replay.crashed THEN {replay}
                   ELSE applyMessage(replay, nextMessage)
    /\ UNCHANGED <<m_messagesToRenderer, nextMessage, updateRequested,
                   numEnqueued, before>>
    /\ UNCHANGED scrollVars

\* The loop condition on an empty queue: syncRemoteContent returns and the
\* paint goes on to draw the tree.
syncRemoteContentReturn ==
    /\ ~proxy.crashed
    /\ pc = "tryGetMessage"
    /\ m_messagesToRenderer = <<>>
    /\ pc' = "idle"
    /\ nextMessage' = NoMessage
    /\ before' = NewProxy
    /\ UNCHANGED <<m_messagesToRenderer, proxy, updateRequested, numEnqueued,
                   applied, flushesApplied, replay>>
    /\ UNCHANGED scrollVars

syncRemoteContent ==
    syncRemoteContentGet \/ syncRemoteContentApply \/ syncRemoteContentReturn

\* How many times e occurs in the sequence s.
Count(s, e) == Cardinality({i \in 1..Len(s) : s[i] = e})

\* Cap on the calls of purgeGLResources.
MaxPurges == 2

\* The view drops its GL resources: purgeGLResources runs between paints.
purgeGLResourcesCall ==
    /\ ~proxy.crashed
    /\ pc = "idle"
    /\ Count(proxy.events, "PurgeBackingStores") < MaxPurges
    /\ proxy' = purgeGLResources(proxy)
    /\ replay' = IF replay = NoReplay THEN replay ELSE purgeGLResources(replay)
    /\ UNCHANGED <<m_messagesToRenderer, pc, nextMessage, updateRequested,
                   numEnqueued, applied, flushesApplied, before>>
    /\ UNCHANGED scrollVars

\* ------------------------------------------------------- specifications
\* Cap on the messages pushed where pushes interleave with the drain.
MaxInterleaved == 3

\* Descriptors of the queue specification: layer 1 with no children, with
\* or without a new image.
QueueInfos ==
    {WebLayerInfo(1, <<>>, FALSE, FALSE, upd, 1, 0, 0, 0) : upd \in BOOLEAN}

\* Every entry point of the producer against the paint context, in any
\* interleaving.
Next ==
    \/ /\ numEnqueued < MaxInterleaved
       /\ \/ createTileForLayer(1, 1, 1)
          \/ updateTileForLayer(1, 1, 1)
          \/ removeTileForLayer(1, 1)
          \/ deleteCompositingLayer(1)
          \/ setRootCompositingLayer(1)
          \/ \E info \in QueueInfos : syncCompositingLayerState(info)
          \/ didRenderFrame
          \/ createDirectlyCompositedImage(1)
          \/ destroyDirectlyCompositedImage(1)
    \/ paint
    \/ syncRemoteContent

Spec == Init /\ [][Next]_vars

\* A producer of descriptors, images and flushes against a paint context
\* that keeps running once it is in syncRemoteContent.
FairNext ==
    \/ /\ numEnqueued < MaxInterleaved
       /\ \/ \E info \in QueueInfos : syncCompositingLayerState(info)
          \/ didRenderFrame
          \/ createDirectlyCompositedImage(1)
    \/ paint
    \/ syncRemoteContent

FairSpec == Init /\ [][FairNext]_vars /\ WF_vars(syncRemoteContent)

\* Descriptors of the scene specification: any layer, no child or one
\* child, root or not; and layer 1 with a new image, which no message of
\* this specification registers.
SceneInfos ==
    {WebLayerInfo(id, kids, root, FALSE, FALSE, 0, 0, 0, 0) :
        id \in LayerIDs,
        kids \in {<<>>} \cup {<<c>> : c \in LayerIDs},
        root \in BOOLEAN}
    \cup {WebLayerInfo(1, <<>>, FALSE, FALSE, TRUE, 1, 0, 0, 0)}

\* The layer-tree messages, each pushed once the last one is drained.
SceneNext ==
    \/ /\ pc = "idle" /\ m_messagesToRenderer = <<>>
       /\ \/ \E l \in LayerIDs \cup {InvalidWebLayerID} :
                deleteCompositingLayer(l)
          \/ \E l \in LayerIDs \cup {InvalidWebLayerID} :
                setRootCompositingLayer(l)
          \/ \E info \in SceneInfos :
                info.id \notin Range(info.children)
                    /\ syncCompositingLayerState(info)
    \/ paint
    \/ syncRemoteContent

SceneSpec == Init /\ [][SceneNext]_vars

\* The tile messages and the flush, each pushed once the last is drained.
TileNext ==
    \/ /\ pc = "idle" /\ m_messagesToRenderer = <<>>
       /\ \/ \E l \in LayerIDs, t \in TileIDs, b \in Bitmaps :
                createTileForLayer(l, t, b)
          \/ \E l \in LayerIDs, t \in TileIDs, b \in Bitmaps :
                updateTileForLayer(l, t, b)
          \/ \E l \in LayerIDs, t \in TileIDs : removeTileForLayer(l, t)
          \/ didRenderFrame
    \/ paint
    \/ syncRemoteContent

TileSpec == Init /\ [][TileNext]_vars

\* Two runs fed the same messages: descriptors with and without a new
\* image, the image itself, and the flush that ends a frame.
InitReplay ==
    /\ m_messagesToRenderer = <<>>
    /\ proxy = NewProxy
    /\ pc = "idle"
    /\ nextMessage = NoMessage
    /\ updateRequested = FALSE
    /\ numEnqueued = 0
    /\ applied = <<>>
    /\ flushesApplied = 0
    /\ before = NewProxy
    /\ replay = NewProxy
    /\ scrollingTree = NewScrollingTree
    /\ threads = NoCalls

ReplayNext ==
    \/ /\ pc = "idle" /\ m_messagesToRenderer = <<>>
       /\ \/ \E info \in QueueInfos : syncCompositingLayerState(info)
          \/ createDirectlyCompositedImage(1)
          \/ destroyDirectlyCompositedImage(1)
          \/ deleteCompositingLayer(1)
          \/ didRenderFrame
    \/ paint
    \/ syncRemoteContent

ReplaySpec == InitReplay /\ [][ReplayNext]_vars

\* Descriptors of the root specification: any layer, no children, flagged
\* root or not, clipping or not.
RootInfos ==
    {WebLayerInfo(id, <<>>, root, clip, FALSE, 0, 0, 0, 0) :
        id \in LayerIDs, root \in BOOLEAN, clip \in BOOLEAN}

\* The root and layer messages, pushed in batches between paints.
RootNext ==
    \/ /\ pc = "idle"
       /\ \/ \E l \in LayerIDs \cup {InvalidWebLayerID} :
                setRootCompositingLayer(l)
          \/ \E l \in LayerIDs : deleteCompositingLayer(l)
          \/ \E info \in RootInfos : syncCompositingLayerState(info)
    \/ paint
    \/ syncRemoteContent

RootSpec == Init /\ [][RootNext]_vars

\* Tile messages, layer 1 as root, its deletion, an image, the flush and
\* the purge, each entry point called once the last messages are drained.
PurgeNext ==
    \/ /\ pc = "idle" /\ m_messagesToRenderer = <<>>
       /\ \/ \E l \in LayerIDs : updateTileForLayer(l, 1, 1)
          \/ createTileForLayer(1, 1, 1)
          \/ \E l \in LayerIDs : removeTileForLayer(l, 1)
          \/ setRootCompositingLayer(1)
          \/ deleteCompositingLayer(1)
          \/ createDirectlyCompositedImage(1)
          \/ didRenderFrame
    \/ purgeGLResourcesCall
    \/ paint
    \/ syncRemoteContent

PurgeSpec == Init /\ [][PurgeNext]_vars

\* Contents rectangles: the empty one of a new layer, and another.
ContentsRects == {0, 1}

\* Descriptors of the image specification: layer 1, any image key or none,
\* flagged as updated or not, either contents rectangle.
ImageInfos ==
    {WebLayerInfo(1, <<>>, FALSE, FALSE, upd, img, rect, 0, 0) :
        upd \in BOOLEAN, img \in ImageIDs \cup {0}, rect \in ContentsRects}

\* Images and the descriptors that name them, each message pushed once the
\* last one is drained.
ImageNext ==
    \/ /\ pc = "idle" /\ m_messagesToRenderer = <<>>
       /\ \/ \E key \in ImageIDs : createDirectlyCompositedImage(key)
          \/ \E key \in ImageIDs : destroyDirectlyCompositedImage(key)
          \/ \E info \in ImageInfos : syncCompositingLayerState(info)
    \/ paint
    \/ syncRemoteContent

ImageSpec == Init /\ [][ImageNext]_vars

\* Cap on the messages pushed in the child-list specification.
MaxChildSyncs == 3

\* The child lists of a descriptor for `id`: up to two layers, each once,
\* never the layer itself.
ChildLists(id) ==
    LET others == LayerMapKeys \ {id} IN
    {<<>>} \cup {<<c>> : c \in others}
           \cup {pair \in others \X others : pair[1] # pair[2]}

\* Descriptors of the child-list specification.
ChildInfos ==
    UNION {{WebLayerInfo(id, kids, FALSE, FALSE, FALSE, 0, 0, 0, 0) :
                kids \in ChildLists(id)} : id \in LayerMapKeys}

\* Descriptors with child lists, each pushed once the last one is drained.
ChildNext ==
    \/ /\ pc = "idle" /\ m_messagesToRenderer = <<>>
       /\ numEnqueued < MaxChildSyncs
       /\ \E info \in ChildInfos : syncCompositingLayerState(info)
    \/ paint
    \/ syncRemoteContent

ChildSpec == Init /\ [][ChildNext]_vars

\* The descriptor of a layer with the child list `kids`.
TreeInfo(id, kids, isRootLayer) ==
    WebLayerInfo(id, kids, isRootLayer, FALSE, FALSE, 0, 0, 0, 0)

\* Cap on the messages that lead to the state a committed tree arrives in.
MaxStartCommands == 3

\* The descriptors that lead there: layers 1 and 2, each with no child or
\* with the other one as its child, flagged root or not.
StartInfos ==
    {TreeInfo(id, kids, root) :
        id \in {1, 2}, kids \in {<<>>, <<1>>, <<2>>}, root \in BOOLEAN}

\* Committed trees: a root, up to two children, and up to one child of
\* the first child; no layer twice.
CommittedTrees ==
    UNION {UNION {{[root |-> r, kids |-> k, grand |-> g] :
                      g \in {<<>>} \cup
                            IF Len(k) = 0 THEN {}
                            ELSE {<<x>> : x \in LayerMapKeys \ ({r} \cup Range(k))}} :
                  k \in ChildLists(r)} : r \in LayerIDs}

\* The layers of a committed tree.
TreeMembers(tree) == {tree.root} \cup Range(tree.kids) \cup Range(tree.grand)

\* The SyncLayerParameters messages that describe a committed tree, the
\* root first.
TreeSyncs(tree) ==
    <<SyncLayerParametersMessage(TreeInfo(tree.root, tree.kids, TRUE))>>
    \o [i \in 1..Len(tree.kids) |->
           SyncLayerParametersMessage(
               TreeInfo(tree.kids[i],
                        IF i = 1 THEN tree.grand ELSE <<>>, FALSE))]
    \o [i \in 1..Len(tree.grand) |->
           SyncLayerParametersMessage(TreeInfo(tree.grand[i], <<>>, FALSE))]

\* s in reverse order.
Reverse(s) == [i \in 1..Len(s) |-> s[Len(s) + 1 - i]]

\* The batches that describe one committed tree: the deletion of a layer
\* the tree does not have, or none; SetRootLayer for its root, or none; and
\* the descriptors of its layers, parents first or children first.
CommittedBatches ==
    UNION {{del \o root \o syncs :
               del \in {<<>>} \cup
                       {<<DeleteLayerMessage(d)>> :
                           d \in LayerMapKeys \ TreeMembers(tree)},
               root \in {<<>>, <<SetRootLayerMessage(tree.root)>>},
               syncs \in {TreeSyncs(tree), Reverse(TreeSyncs(tree))}} :
           tree \in CommittedTrees}

\* A paint with a committed batch in the queue.  `proxy` is the run in
\* which the batch was queued once, `replay` the run in which it was queued
\* twice; both start from the state the proxy is in.
replayCommittedState(batch) ==
    /\ ~proxy.crashed
    /\ pc = "idle"
    /\ m_messagesToRenderer = <<>>
    /\ replay = NoReplay
    /\ proxy' \in drain(paintProxy(proxy), batch)
    /\ replay' \in drain(paintProxy(proxy), batch \o batch)
    /\ updateRequested' = FALSE
    /\ UNCHANGED <<m_messagesToRenderer, pc, nextMessage, numEnqueued,
                   applied, flushesApplied, before>>
    /\ UNCHANGED scrollVars

\* Layer messages lead to a starting state, each pushed once the last one
\* is drained; then a committed batch is replayed.
IdempotenceNext ==
    /\ replay = NoReplay
    /\ \/ /\ pc = "idle" /\ m_messagesToRenderer = <<>>
          /\ numEnqueued < MaxStartCommands
          /\ \/ \E l \in {1, 2} : deleteCompositingLayer(l)
             \/ \E l \in {InvalidWebLayerID, 1, 2} :
                   setRootCompositingLayer(l)
             \/ \E info \in StartInfos :
                   info.id \notin Range(info.children)
                       /\ syncCompositingLayerState(info)
       \/ paint
       \/ syncRemoteContent
       \/ \E batch \in CommittedBatches : replayCommittedState(batch)

IdempotenceSpec == Init /\ [][IdempotenceNext]_vars

\* Every entry point of the producer against the paint context and the
\* purge, in any interleaving.
FrameNext ==
    \/ /\ numEnqueued < MaxInterleaved
       /\ \/ createTileForLayer(1, 1, 1)
          \/ updateTileForLayer(1, 1, 1)
          \/ removeTileForLayer(1, 1)
          \/ deleteCompositingLayer(1)
          \/ setRootCompositingLayer(1)
          \/ \E info \in QueueInfos : syncCompositingLayerState(info)
          \/ didRenderFrame
          \/ createDirectlyCompositedImage(1)
          \/ destroyDirectlyCompositedImage(1)
    \/ purgeGLResourcesCall
    \/ paint
    \/ syncRemoteContent

FrameSpec == Init /\ [][FrameNext]_vars

\* Cap on the messages pushed in the reference specification.
MaxReferenceCommands == 3

\* Descriptors of the reference specification: any layer, with another
\* layer or none as its mask, as its replica and as its only child.
ReferenceInfos ==
    {info \in {WebLayerInfo(id, kids, FALSE, FALSE, FALSE, 0, 0, mask, replica) :
                   id \in LayerIDs,
                   kids \in {<<>>} \cup {<<c>> : c \in LayerIDs},
                   mask \in LayerIDs \cup {0},
                   replica \in LayerIDs \cup {0}} :
        info.id \notin Range(info.children) \cup {info.mask, info.replica}}

\* Descriptors, root assignments and deletions, each pushed once the last
\* one is drained.
ReferenceNext ==
    \/ /\ pc = "idle" /\ m_messagesToRenderer = <<>>
       /\ numEnqueued < MaxReferenceCommands
       /\ \/ \E l \in LayerIDs : deleteCompositingLayer(l)
          \/ \E l \in LayerIDs : setRootCompositingLayer(l)
          \/ \E info \in ReferenceInfos : syncCompositingLayerState(info)
    \/ paint
    \/ syncRemoteContent

ReferenceSpec == Init /\ [][ReferenceNext]_vars

\* ------------------------------------------- calls on the ScrollingTree
\* A call starts while fewer than MaxScrollCalls were made.
StartCall(thread) ==
    /\ threads[thread].pc = "idle"
    /\ threads.calls < MaxScrollCalls

\* commitNewTreeState: the new tree is built off the lock.
commitNewTreeStateCall(state) ==
    /\ StartCall("commit")
    /\ threads' = [threads EXCEPT
                     !.commit = [pc |-> "built", state |-> state,
                                 number |-> @.number + 1],
                     !.calls = @ + 1]
    /\ UNCHANGED scrollingTree
    /\ UNCHANGED layerVars

\* commitNewTreeState going on without m_mutex.
commitNewTreeStateLock_noLock ==
    /\ threads.commit.pc = "built"
    /\ threads' = [threads EXCEPT !.commit.pc = "locked"]
    /\ UNCHANGED scrollingTree
    /\ UNCHANGED layerVars

\* commitNewTreeState: MutexLocker on m_mutex.
commitNewTreeStateLock ==
    /\ threads.commit.pc = "built"
    /\ scrollingTree.m_mutex = "free"
    /\ scrollingTree' = [scrollingTree EXCEPT !.m_mutex = "commit"]
    /\ threads' = [threads EXCEPT !.commit.pc = "locked"]
    /\ UNCHANGED layerVars

\* commitNewTreeState: the region of the new state replaces the old one.
commitNewTreeStateSwapRegion ==
    /\ threads.commit.pc = "locked"
    /\ scrollingTree' =
           [scrollingTree EXCEPT !.m_nonFastScrollableRegion =
               [commit |-> threads.commit.number,
                region |-> threads.commit.state.region]]
    /\ threads' = [threads EXCEPT !.commit.pc = "regionSwapped"]
    /\ UNCHANGED layerVars

\* commitNewTreeState: the nodes of the new state replace the old ones.
commitNewTreeStateSwapRoot ==
    /\ threads.commit.pc = "regionSwapped"
    /\ scrollingTree' =
           [scrollingTree EXCEPT !.m_rootNode =
               [commit |-> threads.commit.number,
                scrollable |-> threads.commit.state.scrollable]]
    /\ threads' = [threads EXCEPT !.commit.pc = "swapped"]
    /\ UNCHANGED layerVars

\* commitNewTreeState: the lock is released and the call returns.
commitNewTreeStateUnlock ==
    /\ threads.commit.pc = "swapped"
    /\ scrollingTree' = [scrollingTree EXCEPT !.m_mutex = "free"]
    /\ threads' = [threads EXCEPT !.commit.pc = "idle"]
    /\ UNCHANGED layerVars

commitNewTreeState ==
    \/ \E state \in TreeStates : commitNewTreeStateCall(state)
    \/ commitNewTreeStateLock
    \/ commitNewTreeStateSwapRegion
    \/ commitNewTreeStateSwapRoot
    \/ commitNewTreeStateUnlock

\* tryToHandleWheelEvent is called with an event.
tryToHandleWheelEventCall(event) ==
    /\ StartCall("wheel")
    /\ threads' = [threads EXCEPT
                     !.wheel = [NoCalls.wheel EXCEPT
                                  !.pc = "called", !.event = event],
                     !.calls = @ + 1]
    /\ UNCHANGED scrollingTree
    /\ UNCHANGED layerVars

\* tryToHandleWheelEvent: MutexLocker on m_mutex.
tryToHandleWheelEventLock ==
    /\ threads.wheel.pc = "called"
    /\ scrollingTree.m_mutex = "free"
    /\ scrollingTree' = [scrollingTree EXCEPT !.m_mutex = "wheel"]
    /\ threads' = [threads EXCEPT !.wheel.pc = "locked"]
    /\ UNCHANGED layerVars

\* tryToHandleWheelEvent reads the non-fast-scrollable region.
tryToHandleWheelEventReadRegion ==
    /\ threads.wheel.pc = "locked"
    /\ threads' = [threads EXCEPT
                     !.wheel.region = scrollingTree.m_nonFastScrollableRegion,
                     !.wheel.pc = "regionRead"]
    /\ UNCHANGED scrollingTree
    /\ UNCHANGED layerVars

\* tryToHandleWheelEvent resolves the node under the event in the tree.
tryToHandleWheelEventReadRoot ==
    /\ threads.wheel.pc = "regionRead"
    /\ threads' = [threads EXCEPT
                     !.wheel.root = scrollingTree.m_rootNode,
                     !.wheel.pc = "rootRead"]
    /\ UNCHANGED scrollingTree
    /\ UNCHANGED layerVars

\* tryToHandleWheelEvent releases m_mutex.
tryToHandleWheelEventUnlock ==
    /\ threads.wheel.pc = "rootRead"
    /\ scrollingTree' = [scrollingTree EXCEPT !.m_mutex = "free"]
    /\ threads' = [threads EXCEPT !.wheel.pc = "unlocked"]
    /\ UNCHANGED layerVars

\* tryToHandleWheelEvent asks willWheelEventStartSwipeGesture, which reads
\* the pin and back/forward state under m_swipeStateMutex, and returns.
tryToHandleWheelEventReturn ==
    /\ threads.wheel.pc = "unlocked"
    /\ scrollingTree.m_swipeStateMutex = "free"
    /\ LET swipe == willWheelEventStartSwipeGesture(scrollingTree,
                                                    threads.wheel.event)
       IN threads' = [threads EXCEPT
                        !.wheel.swipe = swipe,
                        !.wheel.result =
                            tryToHandleWheelEventResult(
                                threads.wheel.event, threads.wheel.region,
                                threads.wheel.root, swipe),
                        !.wheel.pc = "idle"]
    /\ UNCHANGED scrollingTree
    /\ UNCHANGED layerVars

tryToHandleWheelEvent ==
    \/ \E event \in WheelEvents : tryToHandleWheelEventCall(event)
    \/ tryToHandleWheelEventLock
    \/ tryToHandleWheelEventReadRegion
    \/ tryToHandleWheelEventReadRoot
    \/ tryToHandleWheelEventUnlock
    \/ tryToHandleWheelEventReturn

\* updateBackForwardState is called with the two flags.
updateBackForwardStateCall(canGoBack, canGoForward) ==
    /\ StartCall("update")
    /\ threads' = [threads EXCEPT
                     !.update = [pc |-> "called", canGoBack |-> canGoBack,
                                 canGoForward |-> canGoForward],
                     !.calls = @ + 1]
    /\ UNCHANGED scrollingTree
    /\ UNCHANGED layerVars

\* updateBackForwardState waiting for the scroll-tree lock as well.
updateBackForwardStateLock_treeLock ==
    /\ threads.update.pc = "called"
    /\ scrollingTree.m_swipeStateMutex = "free"
    /\ scrollingTree.m_mutex = "free"
    /\ scrollingTree' = [scrollingTree EXCEPT !.m_swipeStateMutex = "update"]
    /\ threads' = [threads EXCEPT !.update.pc = "locked"]
    /\ UNCHANGED layerVars

\* updateBackForwardState: MutexLocker on m_swipeStateMutex.
updateBackForwardStateLock ==
    /\ threads.update.pc = "called"
    /\ scrollingTree.m_swipeStateMutex = "free"
    /\ scrollingTree' = [scrollingTree EXCEPT !.m_swipeStateMutex = "update"]
    /\ threads' = [threads EXCEPT !.update.pc = "locked"]
    /\ UNCHANGED layerVars

\* updateBackForwardState stores the two flags.
updateBackForwardStateWrite ==
    /\ threads.update.pc = "locked"
    /\ scrollingTree' = [scrollingTree EXCEPT
                           !.m_canGoBack = threads.update.canGoBack,
                           !.m_canGoForward = threads.update.canGoForward]
    /\ threads' = [threads EXCEPT !.update.pc = "written"]
    /\ UNCHANGED layerVars

\* updateBackForwardState releases the lock and returns.
updateBackForwardStateUnlock ==
    /\ threads.update.pc = "written"
    /\ scrollingTree' = [scrollingTree EXCEPT !.m_swipeStateMutex = "free"]
    /\ threads' = [threads EXCEPT
                     !.update.pc = "idle",
                     !.completed =
                         [m_canGoBack |-> threads.update.canGoBack,
                          m_canGoForward |-> threads.update.canGoForward]]
    /\ UNCHANGED layerVars

\* The steps of updateBackForwardState once it is called.
updateBackForwardStateRun ==
    \/ updateBackForwardStateLock
    \/ updateBackForwardStateWrite
    \/ updateBackForwardStateUnlock

updateBackForwardState ==
    \/ \E b \in BOOLEAN, f \in BOOLEAN : updateBackForwardStateCall(b, f)
    \/ updateBackForwardStateRun

\* canGoBack or canGoForward is called: `member` is the flag it returns.
canGoCall(member) ==
    /\ StartCall("query")
    /\ threads' = [threads EXCEPT
                     !.query = [NoCalls.query EXCEPT
                                  !.pc = "called", !.member = member],
                     !.calls = @ + 1]
    /\ UNCHANGED scrollingTree
    /\ UNCHANGED layerVars

canGoBack == canGoCall("m_canGoBack")

canGoForward == canGoCall("m_canGoForward")

\* canGoBack / canGoForward: MutexLocker on m_swipeStateMutex.
canGoLock ==
    /\ threads.query.pc = "called"
    /\ scrollingTree.m_swipeStateMutex = "free"
    /\ scrollingTree' = [scrollingTree EXCEPT !.m_swipeStateMutex = "query"]
    /\ threads' = [threads EXCEPT !.query.pc = "locked"]
    /\ UNCHANGED layerVars

\* canGoBack / canGoForward reads its flag; `expected` records what the
\* last returned updateBackForwardState call passed for it.
canGoRead ==
    /\ threads.query.pc = "locked"
    /\ threads' = [threads EXCEPT
                     !.query.value = scrollingTree[threads.query.member],
                     !.query.expected =
                         threads.completed[threads.query.member],
                     !.query.answered = TRUE,
                     !.query.pc = "read"]
    /\ UNCHANGED scrollingTree
    /\ UNCHANGED layerVars

\* canGoBack / canGoForward releases the lock and returns the value.
canGoReturn ==
    /\ threads.query.pc = "read"
    /\ scrollingTree' = [scrollingTree EXCEPT !.m_swipeStateMutex = "free"]
    /\ threads' = [threads EXCEPT !.query.pc = "idle"]
    /\ UNCHANGED layerVars

\* The steps of canGoBack / canGoForward once it is called.
canGoRun == canGoLock \/ canGoRead \/ canGoReturn

\* setMainFramePinState: the two flags are stored under m_swipeStateMutex.
setMainFramePinState(pinnedToTheLeft, pinnedToTheRight) ==
    /\ threads.calls < MaxScrollCalls
    /\ scrollingTree.m_swipeStateMutex = "free"
    /\ scrollingTree' =
           [scrollingTree EXCEPT
              !.m_mainFramePinnedToTheLeft = pinnedToTheLeft,
              !.m_mainFramePinnedToTheRight = pinnedToTheRight]
    /\ threads' = [threads EXCEPT !.calls = @ + 1]
    /\ UNCHANGED layerVars

\* Commits, wheel events, back/forward updates, queries and pin updates
\* from their threads, in any interleaving.
ScrollNext ==
    \/ commitNewTreeState
    \/ tryToHandleWheelEvent
    \/ updateBackForwardState
    \/ canGoBack
    \/ canGoForward
    \/ canGoRun
    \/ \E l \in BOOLEAN, r \in BOOLEAN : setMainFramePinState(l, r)

ScrollSpec == Init /\ [][ScrollNext]_vars

\* The same threads with one tree to commit and one wheel event to route,
\* the frame pinned to both edges.
SwipeNext ==
    \/ commitNewTreeStateCall([region |-> {1}, scrollable |-> Points])
    \/ commitNewTreeStateLock
    \/ commitNewTreeStateSwapRegion
    \/ commitNewTreeStateSwapRoot
    \/ commitNewTreeStateUnlock
    \/ tryToHandleWheelEventCall([point |-> 2, direction |-> "left"])
    \/ tryToHandleWheelEventLock
    \/ tryToHandleWheelEventReadRegion
    \/ tryToHandleWheelEventReadRoot
    \/ tryToHandleWheelEventUnlock
    \/ tryToHandleWheelEventReturn
    \/ updateBackForwardState
    \/ canGoBack
    \/ canGoForward
    \/ canGoRun
    \/ setMainFramePinState(TRUE, TRUE)

\* Every thread that is inside updateBackForwardState, canGoBack or
\* canGoForward keeps running; the threads that commit trees and route
\* wheel events may stop anywhere, m_mutex held or not.
SwipeSpec ==
    /\ Init
    /\ [][SwipeNext]_vars
    /\ WF_vars(updateBackForwardStateRun)
    /\ WF_vars(canGoRun)

\* =============================================================== claims
\* The numbers of the messages waiting in the queue, oldest first.
QueuedSeqs ==
    [i \in 1..Len(m_messagesToRenderer) |-> m_messagesToRenderer[i].seq]

\* The number of the message being applied, if one is.
InFlightSeqs == IF pc = "switch" THEN <<nextMessage.seq>> ELSE <<>>

\* The paint context has just applied a message of this type.
Applied(type) == pc = "tryGetMessage" /\ nextMessage.type = type

\* C1: messages are applied in exactly the order they were pushed: the
\* k-th message applied is the k-th message ever pushed, so the applied
\* sequence is a prefix of the pushed one, nothing reordered or merged.
C1_AppliedInEnqueueOrder ==
    /\ Len(applied) <= numEnqueued
    /\ \A i \in 1..Len(applied) : applied[i] = i

\* C1 witness: three messages applied while another one waits.
C1_Witness ==
    /\ Len(applied) >= 3
    /\ m_messagesToRenderer # <<>>
    /\ proxy.events # <<>>

\* C2: every call of syncRemoteContent returns, and when it returns the
\* queue is empty and every message popped has been applied.
C2_DrainReturnsWithEmptyQueue ==
    /\ [](pc # "idle" => <>(pc = "idle"))
    /\ [][pc # "idle" /\ pc' = "idle" =>
            /\ m_messagesToRenderer' = <<>>
            /\ Len(applied') = numEnqueued' - Len(m_messagesToRenderer')]_vars

\* C3: under any interleaving of pushes with a running drain, every pushed
\* message is exactly one of applied, being applied, or waiting, in push
\* order; at most one message is being applied at any time.
C3_EnqueueWhileDrainingSafe ==
    /\ applied \o InFlightSeqs \o QueuedSeqs = [i \in 1..numEnqueued |-> i]
    /\ pc = "idle" => nextMessage = NoMessage
    /\ Len(InFlightSeqs) <= 1

\* C3 witness: a message is being applied, one was applied before it, and
\* a push arrived after this paint began.
C3_Witness ==
    /\ pc = "switch"
    /\ updateRequested
    /\ applied # <<>>
    /\ m_messagesToRenderer # <<>>

\* C6: the RenderNextFrame signals sent are as many as the
\* FlushLayerChanges messages applied, each follows the swap of its flush,
\* and so no other message sends one.
C6_RenderNextFramePerFlush ==
    /\ Count(proxy.events, "RenderNextFrame") = flushesApplied
    /\ \A i \in 1..Len(proxy.events) :
          proxy.events[i] = "RenderNextFrame" =>
              i > 1 /\ proxy.events[i - 1] = "swapBuffers"

\* C6 witness: two flushes applied among other messages.
C6_Witness ==
    /\ flushesApplied = 2
    /\ Len(applied) > flushesApplied

\* C7: swapBuffers has run exactly as many times as FlushLayerChanges
\* messages were applied.
C7_SwapPerFlush == Count(proxy.events, "swapBuffers") = flushesApplied

\* C7 witness: a flush applied after an UpdateTile left a pending buffer.
C7_Witness ==
    /\ Applied("FlushLayerChanges")
    /\ before.m_backingStoresWithPendingBuffers # {}
    /\ Len(applied) >= 3

\* The descriptor of the SyncLayerParameters message popped last.
SyncedInfo == nextMessage.layerInfo

\* The paint context has finished with a SyncLayerParameters message, by
\* applying it or by crashing in it.
SyncEnded ==
    /\ nextMessage.type = "SyncLayerParameters"
    /\ pc = "tryGetMessage" \/ proxy.crashed

\* C4: SyncLayerParameters for an ID with no layer creates the layer: the
\* map then holds a node for the ID with the descriptor's attributes, and
\* the loop goes on to the next message.
C4_SyncCreatesUnknownLayer ==
    (SyncEnded /\ before.m_layers[SyncedInfo.id] = NullPtr) =>
        /\ ~proxy.crashed
        /\ pc = "tryGetMessage"
        /\ proxy.m_layers[SyncedInfo.id] # NullPtr
        /\ LET layer == proxy.nodes[proxy.m_layers[SyncedInfo.id]] IN
             /\ layer.pos = SyncedInfo.pos
             /\ layer.contentsRect = SyncedInfo.contentsRect
             /\ layer.opacity = SyncedInfo.opacity
             /\ layer.masksToBounds =
                    (~SyncedInfo.isRootLayer /\ SyncedInfo.masksToBounds)
             /\ SyncedInfo.imageIsUpdated =>
                    layer.contents = SyncedInfo.imageBackingStoreID
             /\ layer.children =
                    [i \in 1..Len(SyncedInfo.children) |->
                        proxy.m_layers[SyncedInfo.children[i]]]

\* C5: DeleteLayer for an ID with no layer changes nothing: the layer map,
\* every node, the root ID, the images, the stores and the pending set are
\* as they were.
C5_DeleteUnknownIsNoOp ==
    (Applied("DeleteLayer")
        /\ layerByID(before, nextMessage.layerID) = NullPtr) =>
        proxy = before

\* C5 witness: DeleteLayer was applied to the ID the root names, which has
\* no layer, while another layer exists.
C5_Witness ==
    /\ Applied("DeleteLayer")
    /\ layerByID(before, nextMessage.layerID) = NullPtr
    /\ before.m_rootLayerID = nextMessage.layerID
    /\ \E l \in LayerIDs : before.m_layers[l] # NullPtr

\* What the scene graph of a proxy is: the layer map, the nodes with their
\* attributes and parent/child links, and the root.
SceneGraph(p) ==
    [m_layers |-> p.m_layers, nodes |-> p.nodes,
     m_rootLayerID |-> p.m_rootLayerID, m_rootLayer |-> p.m_rootLayer]

\* C8: two runs from the same initial state that apply the same messages,
\* the last one FlushLayerChanges, end with the same scene graph.
C8_ReplayDeterministic ==
    (Applied("FlushLayerChanges") /\ replay # NoReplay /\ ~replay.crashed) =>
        SceneGraph(proxy) = SceneGraph(replay)

\* The IDs a layer handle is registered under.
IdsOf(p, h) == {l \in LayerIDs : p.m_layers[l] = h}

\* C9: a child ID with no node gets a placeholder registered under it and
\* listed as the parent's child; while the ID is not deleted its node stays
\* the same instance, and a later SyncLayerParameters for the ID updates
\* that instance and creates no second node for it.
C9_PlaceholderIdentityStable ==
    /\ \A h \in DOMAIN proxy.nodes :
          \A i \in 1..Len(proxy.nodes[h].children) :
              Cardinality(IdsOf(proxy, proxy.nodes[h].children[i])) = 1
    /\ \A l \in LayerIDs :
          (/\ pc = "tryGetMessage"
           /\ nextMessage.type \notin {"none", "DeleteLayer"}
           /\ before.m_layers[l] # NullPtr) =>
              /\ proxy.m_layers[l] = before.m_layers[l]
              /\ proxy.m_layers[l] \in DOMAIN proxy.nodes
    /\ Applied("SyncLayerParameters") =>
          LET h == proxy.m_layers[SyncedInfo.id]
              listed == {SyncedInfo.id} \cup Range(SyncedInfo.children)
          IN /\ h # NullPtr
             /\ proxy.nodes[h].pos = SyncedInfo.pos
             /\ proxy.nodes[h].children =
                    [i \in 1..Len(SyncedInfo.children) |->
                        proxy.m_layers[SyncedInfo.children[i]]]
             /\ \A c \in listed :
                    /\ proxy.m_layers[c] # NullPtr
                    /\ before.m_layers[c] = NullPtr =>
                           proxy.m_layers[c] \notin DOMAIN before.nodes
             /\ DOMAIN proxy.nodes =
                    DOMAIN before.nodes
                        \cup {proxy.m_layers[c] : c \in listed}

\* C9 witness: SyncLayerParameters was applied to an ID whose node was, until
\* then, a never-synced placeholder in another layer's child list.
C9_Witness ==
    /\ Applied("SyncLayerParameters")
    /\ before.m_layers[SyncedInfo.id] # NullPtr
    /\ before.nodes[before.m_layers[SyncedInfo.id]].pos = 0
    /\ \E l \in LayerIDs \ {SyncedInfo.id} :
          /\ before.m_layers[l] # NullPtr
          /\ before.m_layers[SyncedInfo.id]
                 \in Range(before.nodes[before.m_layers[l]].children)
          /\ proxy.m_layers[SyncedInfo.id]
                 \in Range(proxy.nodes[proxy.m_layers[l]].children)
    /\ proxy.nodes[proxy.m_layers[SyncedInfo.id]].pos = SyncedInfo.pos

\* The tile of a layer that has a backing store.
TileOf(p, layerID, tileID) == p.stores[backingStoreOf(p, layerID)][tileID]

\* The layer has a node and the node a backing store.
HasStore(p, layerID) ==
    /\ p.m_layers[layerID] # NullPtr
    /\ backingStoreOf(p, layerID) # NullPtr

\* C10: UpdateTile after CreateTile leaves the content pending, the swap of
\* the next flush makes pending content visible, and RemoveTile leaves the
\* tile with neither pending nor visible content, which a swap cannot
\* bring back.
C10_TileLifecycle ==
    /\ Applied("CreateTile") =>
          /\ HasStore(proxy, nextMessage.layerID)
          /\ TileOf(proxy, nextMessage.layerID,
                    nextMessage.remoteTileID).created
    /\ Applied("UpdateTile") =>
          /\ HasStore(proxy, nextMessage.layerID)
          /\ TileOf(proxy, nextMessage.layerID,
                    nextMessage.remoteTileID).pending = nextMessage.bitmap
    /\ Applied("RemoveTile") =>
          /\ HasStore(proxy, nextMessage.layerID)
          /\ TileOf(proxy, nextMessage.layerID,
                    nextMessage.remoteTileID) = NoTile
    /\ Applied("FlushLayerChanges") =>
          \A l \in LayerIDs, t \in TileIDs :
              HasStore(before, l) =>
                  /\ HasStore(proxy, l)
                  /\ backingStoreOf(proxy, l) = backingStoreOf(before, l)
                  /\ TileOf(before, l, t).pending # NullPtr =>
                         /\ TileOf(proxy, l, t).visible =
                                TileOf(before, l, t).pending
                         /\ TileOf(proxy, l, t).pending = NullPtr
                  /\ TileOf(before, l, t) = NoTile =>
                         TileOf(proxy, l, t) = NoTile

\* C10 witness: a flush was applied while a created tile held pending
\* content, which is now visible.
C10_Witness ==
    /\ Applied("FlushLayerChanges")
    /\ \E l \in LayerIDs, t \in TileIDs :
          /\ HasStore(before, l)
          /\ TileOf(before, l, t).created
          /\ TileOf(before, l, t).pending # NullPtr
          /\ TileOf(proxy, l, t).visible = TileOf(before, l, t).pending

\* The children of the synthetic root container.
RootChildren(p) == p.nodes[p.m_rootLayer].children

\* C11: with root A, once SetRootLayer(B) has been applied and the next
\* message is SyncLayerParameters for B, applying it leaves the root
\* container with B's node as its only child, whether or not B had a node
\* when SetRootLayer(B) was applied, and A keeps its node.
C11_RootReassignment ==
    (/\ Applied("SetRootLayer")
     /\ before.m_rootLayerID # InvalidWebLayerID
     /\ before.m_rootLayerID # nextMessage.layerID
     /\ before.m_layers[before.m_rootLayerID] # NullPtr
     /\ m_messagesToRenderer # <<>>
     /\ Head(m_messagesToRenderer).type = "SyncLayerParameters"
     /\ Head(m_messagesToRenderer).layerInfo.id = nextMessage.layerID) =>
        \A q \in syncLayerParameters(proxy,
                                     Head(m_messagesToRenderer).layerInfo) :
            /\ RootChildren(q) = <<q.m_layers[nextMessage.layerID]>>
            /\ q.m_layers[before.m_rootLayerID]
                   = before.m_layers[before.m_rootLayerID]

\* C12: the layer the root ID names never clips to its bounds.
C12_RootNeverClips ==
    (/\ proxy.m_rootLayerID # InvalidWebLayerID
     /\ proxy.m_layers[proxy.m_rootLayerID] # NullPtr) =>
        ~proxy.nodes[proxy.m_layers[proxy.m_rootLayerID]].masksToBounds

\* C13: no message aborts the paint context or leaves a layer with contents
\* that are neither null nor a registered image's backing.
C13_NoCommandAborts ==
    /\ ~proxy.crashed
    /\ \A h \in DOMAIN proxy.nodes : proxy.nodes[h].contents # Garbage

\* C17: a call of purgeGLResources leaves no directly composited image, no
\* backing store with pending buffers and no texture mapper, and sends
\* PurgeBackingStores exactly once.
C17_PurgeReleasesAndNotifies ==
    [][purgeGLResourcesCall =>
          /\ proxy'.m_directlyCompositedImages = {}
          /\ proxy'.m_backingStoresWithPendingBuffers = {}
          /\ ~proxy'.m_textureMapper
          /\ Count(proxy'.events, "PurgeBackingStores")
                 = Count(proxy.events, "PurgeBackingStores") + 1
          /\ Len(proxy'.events) = Len(proxy.events) + 1]_vars

\* C17 witness: the purge came after a paint that applied tile updates and
\* never swapped them, so it found a texture mapper and pending buffers.
C17_Witness ==
    /\ pc = "idle"
    /\ proxy.events = <<"PurgeBackingStores">>
    /\ proxy.m_rootLayer # NullPtr
    /\ Len(applied) >= 2
    /\ \E l \in LayerIDs : proxy.m_layers[l] # NullPtr
    /\ proxy.m_backingStoresWithPendingBuffers = {}
    /\ ~proxy.m_textureMapper

\* The layer an ID named before the last message was applied, as
\* ensureLayer would find or make it.
LayerBefore(id) ==
    IF before.m_layers[id] = NullPtr THEN NewLayer
    ELSE before.nodes[before.m_layers[id]]

\* The layer an ID names now.
LayerNow(id) == proxy.nodes[proxy.m_layers[id]]

\* The image assignment of the last SyncLayerParameters message, given
\* whether it had to re-run: left alone if not, and if so the layer shows
\* the descriptor's image when that image is registered.
ImageAssignment(rerun) ==
    /\ ~rerun =>
          LayerNow(SyncedInfo.id).contents = LayerBefore(SyncedInfo.id).contents
    /\ (rerun /\ SyncedInfo.imageBackingStoreID
                     \in before.m_directlyCompositedImages) =>
          LayerNow(SyncedInfo.id).contents = SyncedInfo.imageBackingStoreID

\* C18 as stated: the image assignment re-runs if and only if the flag is
\* set, or the contents rectangle differs while the layer already has an
\* image backing assigned.
C18_RerunWhenLayerHasImage ==
    Applied("SyncLayerParameters") =>
        ImageAssignment(
            \/ SyncedInfo.imageIsUpdated
            \/ /\ SyncedInfo.contentsRect
                      # LayerBefore(SyncedInfo.id).contentsRect
               /\ LayerBefore(SyncedInfo.id).contents # NullPtr)

\* C18 amended: the image assignment re-runs if and only if the flag is
\* set, or the contents rectangle differs while the descriptor names an
\* image (its image key is not zero).
C18_RerunWhenDescriptorNamesImage ==
    Applied("SyncLayerParameters") =>
        ImageAssignment(
            \/ SyncedInfo.imageIsUpdated
            \/ /\ SyncedInfo.contentsRect
                      # LayerBefore(SyncedInfo.id).contentsRect
               /\ SyncedInfo.imageBackingStoreID # 0)

\* C18 witness: an unflagged descriptor with a new contents rectangle and a
\* registered image was applied to a layer that showed no image, and the
\* layer now shows it.
C18_Witness ==
    /\ Applied("SyncLayerParameters")
    /\ ~SyncedInfo.imageIsUpdated
    /\ SyncedInfo.contentsRect # LayerBefore(SyncedInfo.id).contentsRect
    /\ SyncedInfo.imageBackingStoreID \in before.m_directlyCompositedImages
    /\ LayerBefore(SyncedInfo.id).contents = NullPtr
    /\ LayerNow(SyncedInfo.id).contents = SyncedInfo.imageBackingStoreID

\* C19: after SyncLayerParameters for L with child list C, L's children are
\* the nodes registered under the IDs of C, in the order of C, each the node
\* the ID had or a new one; a former child that C does not list is no longer
\* a child of L.
C19_ChildListReplaced ==
    Applied("SyncLayerParameters") =>
        LET L == proxy.m_layers[SyncedInfo.id]
            C == SyncedInfo.children
        IN /\ L # NullPtr
           /\ Len(proxy.nodes[L].children) = Len(C)
           /\ \A i \in 1..Len(C) :
                 /\ proxy.m_layers[C[i]] # NullPtr
                 /\ proxy.nodes[L].children[i] = proxy.m_layers[C[i]]
                 /\ proxy.nodes[proxy.m_layers[C[i]]].parent = L
                 /\ IF before.m_layers[C[i]] # NullPtr
                    THEN proxy.m_layers[C[i]] = before.m_layers[C[i]]
                    ELSE proxy.m_layers[C[i]] \notin DOMAIN before.nodes
           /\ \A x \in Range(LayerBefore(SyncedInfo.id).children) :
                 x \notin {proxy.m_layers[C[i]] : i \in 1..Len(C)} =>
                     /\ x \in DOMAIN proxy.nodes
                     /\ x \notin Range(proxy.nodes[L].children)
                     /\ proxy.nodes[x].parent # L

\* C19 witness: a layer with two children was synced with a list naming
\* only the second of them, which is now its only child.
C19_Witness ==
    /\ Applied("SyncLayerParameters")
    /\ Len(LayerBefore(SyncedInfo.id).children) = 2
    /\ Len(SyncedInfo.children) = 1
    /\ LayerNow(SyncedInfo.id).children
           = <<LayerBefore(SyncedInfo.id).children[2]>>
    /\ LayerBefore(SyncedInfo.id).children[1] \in DOMAIN proxy.nodes

\* The message popped last is a tile message.
TileCommand == nextMessage.type \in {"CreateTile", "UpdateTile", "RemoveTile"}

C14_RegionHitSendsToMainThread ==
    (/\ threads.wheel.result # "none"
     /\ threads.wheel.event.point \in threads.wheel.region.region)
        => threads.wheel.result = "SendToMainThread"

\* C14 happens: an event in the region was answered SendToMainThread while
\* a scrollable node lay under it and it would have started a swipe.
C14_Witness ==
    /\ threads.wheel.result = "SendToMainThread"
    /\ threads.wheel.event.point \in threads.wheel.region.region
    /\ threads.wheel.event.point \in threads.wheel.root.scrollable
    /\ threads.wheel.swipe

\* C15: the region and the nodes one wheel-event evaluation reads belong
\* to the same commit: it sees the tree before a commit or the tree after
\* it, never part of each.
C15_AtomicTreeSwap ==
    threads.wheel.pc \in {"rootRead", "unlocked"}
        => threads.wheel.region.commit = threads.wheel.root.commit

\* C15 happens: a wheel-event evaluation read a committed tree while the
\* next commit had its new tree built and was waiting to swap it in.
C15_Witness ==
    /\ threads.wheel.pc = "rootRead"
    /\ threads.wheel.root.commit = 1
    /\ threads.wheel.region.commit = 1
    /\ threads.commit.pc = "built"
    /\ threads.commit.number = 2

\* C16 (values): canGoBack / canGoForward return what the most recently
\* completed updateBackForwardState call stored.
C16_ReflectsCompletedUpdate ==
    threads.query.answered => threads.query.value = threads.query.expected

\* C16 (locks): a call of updateBackForwardState, canGoBack or canGoForward
\* returns even when the scroll-tree lock is never released.
C16_NeverWaitsForTreeLock ==
    /\ [](threads.update.pc # "idle" => <>(threads.update.pc = "idle"))
    /\ [](threads.query.pc # "idle" => <>(threads.query.pc = "idle"))

\* C16: both parts.
C16_BackForwardState ==
    /\ []C16_ReflectsCompletedUpdate
    /\ C16_NeverWaitsForTreeLock

\* C16 happens: a query returned TRUE, the value of a completed update,
\* while a later update was in progress and a commit held the tree lock.
C16_Witness ==
    /\ threads.query.pc = "read"
    /\ threads.query.value
    /\ threads.update.pc = "called"
    /\ ~threads.update.canGoBack /\ ~threads.update.canGoForward
    /\ scrollingTree.m_mutex = "commit"

\* The stores that hold a tile with pending content in the proxy p.
StoresWithPendingContent(p) ==
    {s \in DOMAIN p.stores : \E t \in TileIDs : p.stores[s][t].pending # NullPtr}

\* C21: when a swap has run (FlushLayerChanges applied), every tile content
\* that was pending before it is visible, no backing store holds pending
\* content any more, and the pending set is empty.
C21_SwapPromotesAllPending ==
    Applied("FlushLayerChanges") =>
        /\ proxy.m_backingStoresWithPendingBuffers = {}
        /\ StoresWithPendingContent(proxy) = {}
        /\ \A s \in DOMAIN before.stores \cap DOMAIN proxy.stores :
             \A t \in TileIDs :
                before.stores[s][t].pending # NullPtr
                    => proxy.stores[s][t].visible = before.stores[s][t].pending

\* The IDs a layer handle is registered under in the layer map.
KeysOf(p, h) == {l \in LayerMapKeys : p.m_layers[l] = h}

\* The observable tree of a proxy, by layer ID: the IDs in the layer map,
\* the child list and the parent of each, the children of the root
\* container, and the root layer ID.
ObservableTree(p) ==
    LET live == {l \in LayerMapKeys : p.m_layers[l] # NullPtr}
        node(l) == p.nodes[p.m_layers[l]]
        ids(handles) == [i \in 1..Len(handles) |-> KeysOf(p, handles[i])]
    IN [layers |-> live,
        children |-> [l \in live |-> ids(node(l).children)],
        parent |-> [l \in live |->
                      [none |-> node(l).parent = NullPtr,
                       container |-> /\ node(l).parent # NullPtr
                                     /\ node(l).parent = p.m_rootLayer,
                       ids |-> KeysOf(p, node(l).parent)]],
        rootChildren |-> IF p.m_rootLayer = NullPtr THEN <<>>
                         ELSE ids(RootChildren(p)),
        m_rootLayerID |-> p.m_rootLayerID]

\* C22: from any starting state, a committed batch applied twice leaves the
\* same observable tree as the batch applied once.
C22_ReplayIdempotent ==
    (replay # NoReplay /\ ~proxy.crashed /\ ~replay.crashed) =>
        ObservableTree(proxy) = ObservableTree(replay)

\* C22 happens: a batch was replayed on a state whose tree it changed: the
\* layer that was root is now a child of the new root.
C22_Witness ==
    /\ replay # NoReplay
    /\ proxy.m_rootLayerID = 1
    /\ ObservableTree(proxy).rootChildren = <<{1}>>
    /\ ObservableTree(proxy).children[1] = <<{2}>>
    /\ ObservableTree(replay) = ObservableTree(proxy)
    /\ applied # <<>>

\* C23: the root container has at most one child; the child it has is the
\* layer registered under the root layer ID; with root layer ID 0 it has
\* none.
C23_RootContainerChild ==
    proxy.m_rootLayer # NullPtr =>
        /\ Len(RootChildren(proxy)) <= 1
        /\ Len(RootChildren(proxy)) = 1 =>
              /\ proxy.m_rootLayerID # InvalidWebLayerID
              /\ RootChildren(proxy)[1] = proxy.m_layers[proxy.m_rootLayerID]
        /\ proxy.m_rootLayerID = InvalidWebLayerID => RootChildren(proxy) = <<>>

\* C23 happens: the root was reassigned from layer 1 to layer 2; layer 1
\* still exists and has left the container, whose only child is layer 2.
C23_Witness ==
    /\ proxy.m_rootLayer # NullPtr
    /\ proxy.m_rootLayerID = 2
    /\ RootChildren(proxy) = <<proxy.m_layers[2]>>
    /\ proxy.m_layers[1] # NullPtr
    /\ proxy.nodes[proxy.m_layers[1]].parent = NullPtr
    /\ proxy.m_layers[1] < proxy.m_layers[2]

\* The replicated state C24 names: the layer map, the root layer ID, the
\* image registry and the pending-buffer set.
Replicated(p) ==
    <<p.m_layers, p.m_rootLayerID, p.m_directlyCompositedImages,
      p.m_backingStoresWithPendingBuffers>>

\* A step of a producer entry point: it pushed at least one message.
EntryPointStep == numEnqueued' # numEnqueued

\* The entry point appended its messages to the queue, asked for a
\* viewport update and left the proxy as it was.
OnlyEnqueues ==
    /\ Len(m_messagesToRenderer') =
           Len(m_messagesToRenderer) + (numEnqueued' - numEnqueued)
    /\ SubSeq(m_messagesToRenderer', 1, Len(m_messagesToRenderer))
           = m_messagesToRenderer
    /\ updateRequested'
    /\ proxy' = proxy

\* A step of purgeGLResources: PurgeBackingStores was sent.
PurgeStep ==
    Count(proxy'.events, "PurgeBackingStores")
        # Count(proxy.events, "PurgeBackingStores")

\* C24 as stated: an entry point only enqueues, and the replicated state
\* changes only while syncRemoteContent applies a message.
C24_OnlyDrainMutates ==
    [][/\ EntryPointStep => OnlyEnqueues
       /\ Replicated(proxy') # Replicated(proxy) => pc = "switch"]_vars

\* C24, amended: an entry point only enqueues, and the replicated state
\* changes only while syncRemoteContent applies a message or when
\* purgeGLResources runs.
C24_OnlyDrainOrPurgeMutates ==
    [][/\ EntryPointStep => OnlyEnqueues
       /\ Replicated(proxy') # Replicated(proxy)
             => (pc = "switch" \/ PurgeStep)]_vars

\* C24 happens: an entry point has enqueued a message while the paint was
\* applying an earlier one, after a purge, with layer 1 in the map.
C24_Witness ==
    /\ pc = "switch"
    /\ m_messagesToRenderer # <<>>
    /\ m_messagesToRenderer[Len(m_messagesToRenderer)].seq = numEnqueued
    /\ nextMessage.seq < numEnqueued
    /\ proxy.m_layers[1] # NullPtr
    /\ Count(proxy.events, "PurgeBackingStores") > 0

\* The layers that are alive in the proxy p: those the layer map holds,
\* and the root container.
LiveLayers(p) ==
    ({p.m_layers[l] : l \in LayerMapKeys} \cup {p.m_rootLayer}) \ {NullPtr}

\* The layer h refers to is still in the layer map (or h refers to none).
InLayerMap(p, h) == h = NullPtr \/ KeysOf(p, h) # {}

\* Every child entry of a live layer is in the layer map.
ChildrenInLayerMap(p) ==
    \A h \in LiveLayers(p) :
        \A i \in 1..Len(p.nodes[h].children) :
            InLayerMap(p, p.nodes[h].children[i])

\* C25: every mask, replica and child entry of a live layer, the root
\* container included, refers to a layer that is still in the layer map.
C25_NoDanglingReferences ==
    /\ ChildrenInLayerMap(proxy)
    /\ \A h \in LiveLayers(proxy) :
          /\ InLayerMap(proxy, proxy.nodes[h].mask)
          /\ InLayerMap(proxy, proxy.nodes[h].replica)

====
